---- MODULE Spec2Model ----
(***************************************************************************)
(* Model of src/src/mcp_server.py: the three registry operations           *)
(* (package_info, dependencies, compatible_versions) as request handlers   *)
(* that run concurrently on one event loop, and the version-constraint     *)
(* resolution inside get_compatible_versions.                              *)
(*                                                                         *)
(* Python str values are sequences of one-character strings, so that       *)
(* startswith, slicing, strip, split, join and version parsing are         *)
(* computed rather than assumed.  None is the one-element sequence NoneStr *)
(* (no character equals its element).                                      *)
(***************************************************************************)
EXTENDS Integers, Sequences, FiniteSets, TLC

\* ------------------------------------------------------------------------
\* Python str primitives
\* ------------------------------------------------------------------------

Digits == {"0", "1", "2", "3", "4", "5", "6", "7", "8", "9"}

IsDigit(c) == c \in Digits

DigitVal(c) ==
  CASE c = "0" -> 0 [] c = "1" -> 1 [] c = "2" -> 2 [] c = "3" -> 3
    [] c = "4" -> 4 [] c = "5" -> 5 [] c = "6" -> 6 [] c = "7" -> 7
    [] c = "8" -> 8 [] c = "9" -> 9

NoneStr == <<"<None>">>

\* None where a list of str is expected
NoneList == <<NoneStr>>

\* s.startswith(p)
StartsWith(s, p) == Len(p) <= Len(s) /\ SubSeq(s, 1, Len(p)) = p

\* s[k:]
SliceFrom(s, k) == SubSeq(s, k + 1, Len(s))

RECURSIVE LStrip(_)
LStrip(s) == IF s # <<>> /\ Head(s) = " " THEN LStrip(Tail(s)) ELSE s

RECURSIVE RStrip(_)
RStrip(s) ==
  IF s # <<>> /\ s[Len(s)] = " " THEN RStrip(SubSeq(s, 1, Len(s) - 1)) ELSE s

\* s.strip()
Strip(s) == RStrip(LStrip(s))

\* index of the first "." of s at or after i, Len(s)+1 when there is none
RECURSIVE FindDot(_, _)
FindDot(s, i) ==
  IF i > Len(s) \/ s[i] = "." THEN i ELSE FindDot(s, i + 1)

\* s.split(".")
RECURSIVE SplitDots(_)
SplitDots(s) ==
  LET d == FindDot(s, 1)
  IN  IF d > Len(s) THEN <<s>>
      ELSE <<SubSeq(s, 1, d - 1)>> \o SplitDots(SliceFrom(s, d))

\* ".".join(parts)
RECURSIVE JoinDots(_)
JoinDots(parts) ==
  IF parts = <<>> THEN <<>>
  ELSE IF Len(parts) = 1 THEN parts[1]
  ELSE parts[1] \o <<".">> \o JoinDots(Tail(parts))

\* parts[:-1]
AllButLast(parts) == SubSeq(parts, 1, Len(parts) - 1)

\* ------------------------------------------------------------------------
\* The version strings of the input space
\* ------------------------------------------------------------------------

V_1_0_0 == <<"1", ".", "0", ".", "0">>

V_1_2_0 == <<"1", ".", "2", ".", "0">>

V_1_2_3 == <<"1", ".", "2", ".", "3">>

V_2_0_0 == <<"2", ".", "0", ".", "0">>

V_1_4_0 == <<"1", ".", "4", ".", "0">>

V_1_4_2 == <<"1", ".", "4", ".", "2">>

V_1_4_9 == <<"1", ".", "4", ".", "9">>

V_1_5_0 == <<"1", ".", "5", ".", "0">>

V_1_4 == <<"1", ".", "4">>

V_1_2 == <<"1", ".", "2">>

V_1_2_0a1 == <<"1", ".", "2", ".", "0", "a", "1">>

V_1_2_x == <<"1", ".", "2", ".", "x">>

V_1_10_0 == <<"1", ".", "1", "0", ".", "0">>

V_1 == <<"1">>

\* the candidate lists are drawn from these families: dict keys, so distinct
FamilyCompatible == {V_1_4_0, V_1_4_2, V_1_4_9, V_1_5_0, V_1_4}

FamilyOrdered == {V_1_0_0, V_1_2_0, V_1_2_3, V_2_0_0, V_1_10_0}

FamilyMixed == {V_1_2, V_1_2_0, V_1_2_0a1, V_1_2_x, V_1_4}

Families == {FamilyCompatible, FamilyOrdered, FamilyMixed}

\* the operands of the constraints
OperandTexts == {V_1_2_0, V_1_4_2, V_1_2, V_1, V_1_2_x, <<" ">> \o V_1_4_2, V_1_2_0a1}

\* ------------------------------------------------------------------------
\* packaging.version.parse and Version ordering (packaging >= 22: a string
\* that does not match VERSION_PATTERN raises InvalidVersion).  The pattern
\* is modelled over the alphabet digits, ".", "a", "b", "x", " ": a release
\* N(.N)* and an optional pre-release [.]?(a|b)[.]?N?, surrounded by
\* optional whitespace.
\* ------------------------------------------------------------------------

RECURSIVE DigitRun(_, _)
DigitRun(s, i) ==
  IF i <= Len(s) /\ IsDigit(s[i]) THEN 1 + DigitRun(s, i + 1) ELSE 0

\* int(d) for a run of digits d
RECURSIVE ToInt(_)
ToInt(d) ==
  IF d = <<>> THEN 0
  ELSE 10 * ToInt(SubSeq(d, 1, Len(d) - 1)) + DigitVal(d[Len(d)])

\* the release group [0-9]+(\.[0-9]+)* matched at position i
RECURSIVE MatchRelease(_, _, _)
MatchRelease(s, i, acc) ==
  LET n == DigitRun(s, i)
  IN  IF n = 0 THEN [rel |-> <<>>, next |-> i]
      ELSE LET acc2 == Append(acc, ToInt(SubSeq(s, i, i + n - 1)))
               j    == i + n
           IN  IF j + 1 <= Len(s) /\ s[j] = "." /\ IsDigit(s[j + 1])
               THEN MatchRelease(s, j + 1, acc2)
               ELSE [rel |-> acc2, next |-> j]

NoPre == <<"Infinity", 0>>

Invalid == [ok |-> FALSE, release |-> <<>>, pre |-> NoPre]

\* the pre-release group matched at position j, up to the end of the string
MatchPre(s, j) ==
  IF j > Len(s) THEN [ok |-> TRUE, pre |-> NoPre]
  ELSE LET k == IF s[j] = "." THEN j + 1 ELSE j
       IN  IF k > Len(s) \/ s[k] \notin {"a", "b"} THEN [ok |-> FALSE, pre |-> NoPre]
           ELSE LET m == IF k + 1 <= Len(s) /\ s[k + 1] = "." THEN k + 2 ELSE k + 1
                    n == DigitRun(s, m)
                IN  IF m + n # Len(s) + 1 THEN [ok |-> FALSE, pre |-> NoPre]
                    ELSE [ok |-> TRUE,
                          pre |-> <<s[k], IF n = 0 THEN 0 ELSE ToInt(SubSeq(s, m, m + n - 1))>>]

\* the parsed version when the rest of the string matched as p
ParsePre(release, p) ==
  IF p.ok THEN [ok |-> TRUE, release |-> release, pre |-> p.pre] ELSE Invalid

\* the parsed version when the release group matched as r
ParseRelease(s, r) ==
  IF r.rel = <<>> THEN Invalid ELSE ParsePre(r.rel, MatchPre(s, r.next))

\* version.parse(v): ok = FALSE stands for raising InvalidVersion
Parse(v) == ParseRelease(Strip(v), MatchRelease(Strip(v), 1, <<>>))

\* Parse over the version strings of the input space, computed once
ParseTable == [v \in UNION Families \cup {Strip(o) : o \in OperandTexts} |-> Parse(v)]

\* version.parse(v) as the handler calls it
version_parse(v) == IF v \in DOMAIN ParseTable THEN ParseTable[v] ELSE Parse(v)

Parseable(v) == version_parse(v).ok

\* faulty variant of StripTrailingZeros: the release as parsed, zeros kept
KeepTrailingZeros(rel) == rel

\* _cmpkey: the release with its trailing zeros removed
RECURSIVE StripTrailingZeros(_)
StripTrailingZeros(rel) ==
  IF rel # <<>> /\ rel[Len(rel)] = 0
  THEN StripTrailingZeros(SubSeq(rel, 1, Len(rel) - 1))
  ELSE rel

\* Python tuple comparison of two int tuples: -1, 0 or 1
RECURSIVE CmpTuple(_, _)
CmpTuple(a, b) ==
  IF a = <<>> /\ b = <<>> THEN 0
  ELSE IF a = <<>> THEN -1
  ELSE IF b = <<>> THEN 1
  ELSE IF Head(a) < Head(b) THEN -1
  ELSE IF Head(a) > Head(b) THEN 1
  ELSE CmpTuple(Tail(a), Tail(b))

\* _cmpkey's pre component: Infinity for a final release, else (letter, n)
CmpPre(p, q) ==
  IF p = q THEN 0
  ELSE IF p = NoPre THEN 1
  ELSE IF q = NoPre THEN -1
  ELSE IF p[1] # q[1] THEN (IF p[1] = "a" THEN -1 ELSE 1)
  ELSE IF p[2] < q[2] THEN -1 ELSE 1

\* comparison of Version._key of two parsed versions
CmpVersion(x, y) ==
  LET c == CmpTuple(StripTrailingZeros(x.release), StripTrailingZeros(y.release))
  IN  IF c # 0 THEN c ELSE CmpPre(x.pre, y.pre)


\* ------------------------------------------------------------------------
\* get_compatible_versions, lines 204-248: the constraint resolution
\* ------------------------------------------------------------------------

NoExc == "null"

Ok(v) == [exc |-> NoExc, val |-> v]

Raise(e) == [exc |-> e, val |-> <<>>]

\* the if/elif chain of lines 221-236, in its order
ConstraintOp(constraint) ==
  IF StartsWith(constraint, <<">", "=">>) THEN ">="
  ELSE IF StartsWith(constraint, <<">">>) THEN ">"
  ELSE IF StartsWith(constraint, <<"<", "=">>) THEN "<="
  ELSE IF StartsWith(constraint, <<"<">>) THEN "<"
  ELSE IF StartsWith(constraint, <<"=", "=">>) THEN "=="
  ELSE IF StartsWith(constraint, <<"~", "=">>) THEN "~="
  ELSE "unrecognised"

\* the slice each branch takes: constraint[2:] or constraint[1:]
OpLen(op) == IF op \in {">", "<"} THEN 1 ELSE 2

\* constraint[n:].strip()
Operand(constraint) ==
  Strip(SliceFrom(constraint, OpLen(ConstraintOp(constraint))))

\* the comparison each branch applies to (version.parse(v), version.parse(operand))
Satisfies(op, c) ==
  CASE op = ">=" -> c >= 0
    [] op = ">"  -> c > 0
    [] op = "<=" -> c <= 0
    [] op = "<"  -> c < 0

\* lines 223, 226, 229, 232: the comprehension parses v and the operand for
\* every element, so it raises as soon as the list is non-empty and either
\* side does not parse
CompareFilter(op, all, operand) ==
  IF all # <<>> /\ (~Parseable(operand) \/ \E i \in 1..Len(all) : ~Parseable(all[i]))
  THEN Raise("InvalidVersion")
  ELSE Ok(SelectSeq(all, LAMBDA v : Satisfies(op, CmpVersion(version_parse(v), version_parse(operand)))))

\* line 235
ExactFilter(all, exact_version) == SelectSeq(all, LAMBDA v : v = exact_version)

\* faulty variant of CompatiblePrefix: every component is kept (parts, not
\* parts[:-1])
CompatiblePrefixAllParts(compatible_version) ==
  JoinDots(SplitDots(compatible_version)) \o <<".">>

\* lines 239-240
CompatiblePrefix(compatible_version) ==
  JoinDots(AllButLast(SplitDots(compatible_version))) \o <<".">>

\* faulty variant of PrefixFilter: the prefix lacks its trailing "."
PrefixFilterNoDot(all, compatible_version) ==
  SelectSeq(all, LAMBDA v :
    StartsWith(v, JoinDots(AllButLast(SplitDots(compatible_version)))))

\* line 241
PrefixFilter(all, compatible_version) ==
  SelectSeq(all, LAMBDA v : StartsWith(v, CompatiblePrefix(compatible_version)))

\* list.sort(key=version.parse, reverse=True): a stable sort, so elements of
\* equal key keep their order; each element goes after those of key >= its own
\* faulty variant of InsertDesc: an element goes before those of equal key
\* (the sort is not stable)
RECURSIVE InsertDescUnstable(_, _)
InsertDescUnstable(sorted, v) ==
  IF sorted = <<>> THEN <<v>>
  ELSE IF CmpVersion(version_parse(Head(sorted)), version_parse(v)) > 0
       THEN <<Head(sorted)>> \o InsertDescUnstable(Tail(sorted), v)
       ELSE <<v>> \o sorted

RECURSIVE InsertDesc(_, _)
InsertDesc(sorted, v) ==
  IF sorted = <<>> THEN <<v>>
  ELSE IF CmpVersion(version_parse(Head(sorted)), version_parse(v)) >= 0
       THEN <<Head(sorted)>> \o InsertDesc(Tail(sorted), v)
       ELSE <<v>> \o sorted

RECURSIVE SortDesc(_)
SortDesc(s) ==
  IF s = <<>> THEN <<>>
  ELSE InsertDesc(SortDesc(SubSeq(s, 1, Len(s) - 1)), s[Len(s)])

\* line 245: the keys are computed first, and a key that raises leaves the
\* list as it was
SortInPlace(s) ==
  IF \E i \in 1..Len(s) : ~Parseable(s[i])
  THEN [exc |-> "InvalidVersion", val |-> s]
  ELSE Ok(SortDesc(s))

\* lines 221-241: the list object compatible_versions names after the chain:
\* "a0" is the list all_versions names, "a1" the list a comprehension built
FilterRef(constraint) ==
  IF ConstraintOp(constraint) = "unrecognised" THEN "a0" ELSE "a1"

\* lines 221-241: the content of the list a comprehension built
Filtered(all, constraint) ==
  IF ConstraintOp(constraint) \in {">=", ">", "<=", "<"}
  THEN CompareFilter(ConstraintOp(constraint), all, Operand(constraint))
  ELSE IF ConstraintOp(constraint) = "=="
  THEN Ok(ExactFilter(all, Operand(constraint)))
  ELSE IF ConstraintOp(constraint) = "~="
  THEN Ok(PrefixFilter(all, Operand(constraint)))
  ELSE Ok(<<>>)

\* lines 245-246, s being what the sort did
Sorted(heap, ref, s) ==
  [exc |-> s.exc, heap |-> [heap EXCEPT ![ref] = s.val],
   recommended_version |-> IF s.exc = NoExc THEN s.val[1] ELSE NoneStr]

\* lines 244-248, on the list object compatible_versions names
Recommend(heap, ref) ==
  IF heap[ref] # <<>> THEN Sorted(heap, ref, SortInPlace(heap[ref]))
  ELSE [exc |-> NoExc, heap |-> heap, recommended_version |-> NoneStr]

\* lines 213-215.  A frame records, when lines 213-248 are left: the
\* exception (if any), the two list objects (heap), the one
\* compatible_versions names (ref), its content when the filter chain ended
\* (matched) and recommended_version.
Unfiltered(keys, latest_version) ==
  [exc |-> NoExc, heap |-> [a0 |-> keys, a1 |-> <<>>], ref |-> "a0",
   matched |-> keys, recommended_version |-> latest_version]

\* lines 243-248, matched being the content of the list ref names
Recommended(ref, matched, rec) ==
  [exc |-> rec.exc, heap |-> rec.heap, ref |-> ref, matched |-> matched,
   recommended_version |-> rec.recommended_version]

\* lines 218-248, f being what the filter chain did
Constrained(keys, latest_version, ref, f) ==
  IF f.exc # NoExc THEN [Unfiltered(keys, latest_version) EXCEPT !.exc = f.exc]
  ELSE IF ref = "a1"
  THEN Recommended(ref, f.val, Recommend([a0 |-> keys, a1 |-> f.val], ref))
  ELSE Recommended(ref, keys, Recommend([a0 |-> keys, a1 |-> <<>>], ref))

\* faulty variant of Resolve: only None counts as no constraint (a test
\* 'is not None' in place of truthiness)
ResolveNoneOnly(keys, latest_version, constraint) ==
  IF constraint = NoneStr THEN Unfiltered(keys, latest_version)
  ELSE Constrained(keys, latest_version, FilterRef(constraint), Filtered(keys, constraint))

\* lines 213-248
Resolve(keys, latest_version, constraint) ==
  IF constraint = NoneStr \/ constraint = <<>> THEN Unfiltered(keys, latest_version)
  ELSE Constrained(keys, latest_version, FilterRef(constraint), Filtered(keys, constraint))

\* ------------------------------------------------------------------------
\* The service: requests, registry responses, result models
\* ------------------------------------------------------------------------

NReq == 2

Requests == 1..NReq

VARIABLES
  pydanticV2,  \* the installed pydantic is 2.x: a field annotated Optional[str]
               \* with no default is required (1.x gives it the default None)
  pc,          \* pc[r]: "idle", "accepted", "awaiting" (the registry call), "done"
  query,       \* query[r]: the request body
  calls,       \* calls[r]: session.get calls issued for request r
  response,    \* response[r]: what the registry answered
  frame,       \* frame[r]: get_compatible_versions' locals when lines 213-248 end
  result       \* result[r]: what the caller gets: a result model or a fault

vars == <<pydanticV2, pc, query, calls, response, frame, result>>

PACKAGE_REGISTRIES == {"pip", "npm"}

\* str.lower() on the package managers of the model
Lower(m) == IF m = "PIP" THEN "pip" ELSE m

Omitted == <<"<omitted>">>

EmptyDict == [k \in {} |-> <<>>]

\* PackageResult(...): latest_version is a required str
PackageResult(package_name, package_manager, versions, latest_version, description, error) ==
  IF latest_version = NoneStr THEN Raise("ValidationError")
  ELSE Ok([type |-> "PackageResult", package_name |-> package_name,
           package_manager |-> package_manager, versions |-> versions,
           latest_version |-> latest_version, description |-> description,
           error |-> error])

\* DependencyResult(...)
DependencyResult(package_name, package_manager, dependencies, error) ==
  Ok([type |-> "DependencyResult", package_name |-> package_name,
      package_manager |-> package_manager, dependencies |-> dependencies,
      error |-> error])

\* VersionResult(...): recommended_version is Optional[str] with no default;
\* Omitted is a call that does not pass it
VersionResult(package_name, package_manager, compatible_versions, recommended_version, error) ==
  IF recommended_version = Omitted /\ pydanticV2 THEN Raise("ValidationError")
  ELSE Ok([type |-> "VersionResult", package_name |-> package_name,
           package_manager |-> package_manager,
           compatible_versions |-> compatible_versions,
           recommended_version |->
             IF recommended_version = Omitted THEN NoneStr ELSE recommended_version,
           error |-> error])

\* the error-shaped result of each endpoint, as the handlers build it
ErrorResult(q, package_manager, error) ==
  CASE q.op = "package_info" ->
         PackageResult(q.package_name, package_manager, <<>>, <<>>, NoneStr, error)
    [] q.op = "dependencies" ->
         DependencyResult(q.package_name, package_manager, EmptyDict, error)
    [] q.op = "compatible_versions" ->
         VersionResult(q.package_name, package_manager, <<>>, Omitted, error)

\* data[key]: a registry document lists the keys it holds; under pip the
\* latest version and the summary live inside data["info"]
Has(doc, package_manager, key) ==
  /\ key \in doc.present
  /\ (package_manager = "pip" /\ key \in {"latest", "description"}) => "info" \in doc.present

\* get_package_info, lines 85-105
PackageInfoBody(q, package_manager, doc) ==
  IF \E k \in {"versions", "latest", "description"} : ~Has(doc, package_manager, k)
  THEN Raise("KeyError")
  ELSE PackageResult(q.package_name, package_manager, doc.versions, doc.latest,
                     doc.description, NoExc)

\* re.match(r"([^<>=~!]+)(.+)?", dep): the length of group 1
RECURSIVE NameLen(_, _)
NameLen(dep, i) ==
  IF i <= Len(dep) /\ dep[i] \notin {"<", ">", "=", "~", "!"}
  THEN 1 + NameLen(dep, i + 1) ELSE 0

\* lines 150-157: the dependencies dict after the loop over requires_dist
RECURSIVE ParseRequires(_, _)
ParseRequires(requires_dist, dependencies) ==
  IF requires_dist = <<>> THEN dependencies
  ELSE LET dep  == Head(requires_dist)
           n    == NameLen(dep, 1)
           name == Strip(SubSeq(dep, 1, n))
           next == IF n = 0 THEN dependencies
                   ELSE [k \in DOMAIN dependencies \cup {name} |->
                           IF k = name THEN SliceFrom(dep, n) ELSE dependencies[k]]
       IN  ParseRequires(Tail(requires_dist), next)

InKeys(v, keys) == \E i \in 1..Len(keys) : keys[i] = v

\* get_dependencies, lines 143-168
DependenciesBody(q, package_manager, doc) ==
  LET falsy == q.version = NoneStr \/ q.version = <<>>
  IN  IF falsy /\ ~Has(doc, package_manager, "latest") THEN Raise("KeyError")
      ELSE IF ~Has(doc, package_manager, "versions") THEN Raise("KeyError")
      ELSE LET version_to_check == IF falsy THEN doc.latest ELSE q.version
           IN  IF ~InKeys(version_to_check, doc.versions)
               THEN DependencyResult(q.package_name, package_manager, EmptyDict, NoExc)
               ELSE IF package_manager = "pip"
               THEN IF "info" \notin doc.present THEN Raise("KeyError")
                    ELSE DependencyResult(q.package_name, package_manager,
                           IF doc.requires_dist = NoneList THEN EmptyDict
                           ELSE ParseRequires(doc.requires_dist, EmptyDict), NoExc)
               ELSE DependencyResult(q.package_name, package_manager,
                      IF version_to_check \in DOMAIN doc.dependencies
                      THEN doc.dependencies[version_to_check] ELSE EmptyDict, NoExc)

\* the frame of get_compatible_versions, lines 204-248, when both keys are there
CompatibleFrame(q, doc) == Resolve(doc.versions, doc.latest, q.version_constraint)

\* lines 250-255, from the frame fr
ReturnVersions(q, package_manager, fr) ==
  IF fr.exc # NoExc THEN Raise(fr.exc)
  ELSE VersionResult(q.package_name, package_manager, fr.heap[fr.ref],
                     fr.recommended_version, NoExc)

\* get_compatible_versions, lines 204-255
CompatibleVersionsBody(q, package_manager, doc) ==
  IF \E k \in {"versions", "latest"} : ~Has(doc, package_manager, k)
  THEN Raise("KeyError")
  ELSE ReturnVersions(q, package_manager, CompatibleFrame(q, doc))

Body(q, package_manager, doc) ==
  CASE q.op = "package_info" -> PackageInfoBody(q, package_manager, doc)
    [] q.op = "dependencies" -> DependenciesBody(q, package_manager, doc)
    [] q.op = "compatible_versions" -> CompatibleVersionsBody(q, package_manager, doc)

\* the try block from the registry's answer on
AfterGet(q, resp) ==
  LET package_manager == Lower(q.package_manager)
  IN  CASE resp.kind = "transport_error" -> Raise("ClientError")
        [] resp.kind = "non200" -> ErrorResult(q, package_manager, "Package not found")
        [] resp.kind = "bad_json" -> Raise("JSONDecodeError")
        [] resp.kind = "json" -> Body(q, package_manager, resp.doc)

Fault == [kind |-> "fault", body |-> [type |-> "InternalServerError"]]

NoResult == [kind |-> "none", body |-> [type |-> "none"]]

\* try ... except Exception as e: the except clause builds the error result
\* from the query as sent; what it raises reaches the caller
Finish(q, attempt) ==
  IF attempt.exc = NoExc THEN [kind |-> "result", body |-> attempt.val]
  ELSE IF ErrorResult(q, q.package_manager, attempt.exc).exc = NoExc
  THEN [kind |-> "result", body |-> ErrorResult(q, q.package_manager, attempt.exc).val]
  ELSE Fault


\* ------------------------------------------------------------------------
\* Inputs: version strings, candidate lists, constraints, registry documents
\* ------------------------------------------------------------------------

\* the longest candidate list a registry document holds
MaxCand == 4

\* the sequences of distinct elements of S of length at most n
RECURSIVE DistinctSeqs(_, _)
DistinctSeqs(S, n) ==
  IF n = 0 THEN {<<>>}
  ELSE LET shorter == DistinctSeqs(S, n - 1)
           longest == {u \in shorter : Len(u) = n - 1}
       IN  shorter \cup
           UNION {{Append(t, x) : x \in {y \in S : ~InKeys(y, t)}} : t \in longest}

CandidateLists == UNION {DistinctSeqs(F, MaxCand) : F \in Families}

OperatorTexts ==
  {<<">", "=">>, <<">">>, <<"<", "=">>, <<"<">>, <<"=", "=">>, <<"~", "=">>,
   <<"!", "=">>, <<"=">>, <<"^">>, <<>>}

Constraints == {NoneStr} \cup {o \o v : o \in OperatorTexts, v \in OperandTexts \cup {<<>>}}

Managers == {"pip", "npm", "cargo", "PIP"}

Pkg == "pkg"

NoDeps == [v \in {} |-> EmptyDict]

\* a registry document with every key, whose latest is the last key listed
VersionDoc(keys) ==
  [present |-> {"versions", "info", "latest", "description"},
   versions |-> keys,
   latest |-> IF keys = <<>> THEN V_1_0_0 ELSE keys[Len(keys)],
   description |-> <<"d">>,
   requires_dist |-> NoneList,
   dependencies |-> NoDeps]

BaseDoc == VersionDoc(<<V_1_0_0, V_1_2_0>>)

\* documents that lack keys, or hold null where a string is expected
MalformedDocs ==
  {[BaseDoc EXCEPT !.present = P] :
     P \in {{}, {"versions"}, {"versions", "info"}, {"versions", "info", "latest"},
            {"versions", "latest", "description"}}}
  \cup {[BaseDoc EXCEPT !.latest = NoneStr]}

DepA == <<"a", ">", "=", "1">>

DepB == <<"b", " ">>

DepNoName == <<">", "=", "1">>

DepAAgain == <<"a", " ", "<", "2">>

DependencyDocs ==
  {[BaseDoc EXCEPT !.requires_dist = rd] :
     rd \in {<<>>, <<DepA>>, <<DepA, DepB>>, <<DepNoName, DepA>>, <<DepA, DepAAgain>>}}
  \cup {[BaseDoc EXCEPT !.dependencies = d] :
     d \in {[v \in {V_1_2_0} |-> [k \in {<<"a">>} |-> <<"^", "1">>]],
            [v \in {V_1_0_0, V_1_2_0} |-> EmptyDict]}}

Failures == {[kind |-> k, doc |-> BaseDoc] : k \in {"transport_error", "non200", "bad_json"}}

Json(docs) == {[kind |-> "json", doc |-> d] : d \in docs}

\* what the registry may answer to a query, and the queries, in the full
\* input space and in the small one used with several requests in flight
Responses(q) ==
  Failures \cup Json(MalformedDocs) \cup
  (IF q.op = "dependencies" THEN Json(DependencyDocs)
   ELSE Json({VersionDoc(c) : c \in CandidateLists}))

SmallResponses(q) ==
  Failures \cup Json({BaseDoc, [BaseDoc EXCEPT !.present = {}]})

PackageQueries ==
  {[op |-> "package_info", package_name |-> Pkg, package_manager |-> m, version |-> NoneStr] :
     m \in Managers}

DependencyQueries ==
  {[op |-> "dependencies", package_name |-> Pkg, package_manager |-> m, version |-> v, depth |-> 1] :
     m \in Managers, v \in {NoneStr, <<>>, V_1_2_0, V_2_0_0}}

\* the upper-case manager is exercised by the other two query models
VersionQueries(constraints) ==
  {[op |-> "compatible_versions", package_name |-> Pkg, package_manager |-> m,
    version_constraint |-> c] : m \in Managers \ {"PIP"}, c \in constraints}

Queries == PackageQueries \cup DependencyQueries \cup VersionQueries(Constraints)

SmallQueries ==
  {q \in PackageQueries \cup DependencyQueries : q.version = NoneStr}
  \cup VersionQueries({NoneStr, <<">", "=">> \o V_1_2_0})

\* ------------------------------------------------------------------------
\* The state machine
\* ------------------------------------------------------------------------

NoQuery == [op |-> "none"]

NoResponse == [kind |-> "none"]

NoFrame == [exc |-> "none"]

Init ==
  /\ pydanticV2 \in BOOLEAN
  /\ pc = [r \in Requests |-> "idle"]
  /\ query = [r \in Requests |-> NoQuery]
  /\ calls = [r \in Requests |-> 0]
  /\ response = [r \in Requests |-> NoResponse]
  /\ frame = [r \in Requests |-> NoFrame]
  /\ result = [r \in Requests |-> NoResult]

\* FastAPI validates the body into the query model and calls the handler
Receive(r, q) ==
  /\ pc[r] = "idle"
  /\ pc' = [pc EXCEPT ![r] = "accepted"]
  /\ query' = [query EXCEPT ![r] = q]
  /\ UNCHANGED <<pydanticV2, calls, response, frame, result>>

\* the handler up to its first await: the registry check, then session.get
Start(r) ==
  /\ pc[r] = "accepted"
  /\ IF Lower(query[r].package_manager) \notin PACKAGE_REGISTRIES
     THEN /\ result' = [result EXCEPT ![r] =
                 Finish(query[r], ErrorResult(query[r], Lower(query[r].package_manager),
                                              "Unsupported package manager"))]
          /\ pc' = [pc EXCEPT ![r] = "done"]
          /\ UNCHANGED calls
     ELSE /\ calls' = [calls EXCEPT ![r] = @ + 1]
          /\ pc' = [pc EXCEPT ![r] = "awaiting"]
          /\ UNCHANGED result
  /\ UNCHANGED <<pydanticV2, query, response, frame>>

\* the registry answers and the handler runs to its return
Respond(r, resp) ==
  /\ pc[r] = "awaiting"
  /\ response' = [response EXCEPT ![r] = resp]
  /\ pc' = [pc EXCEPT ![r] = "done"]
  /\ result' = [result EXCEPT ![r] = Finish(query[r], AfterGet(query[r], resp))]
  /\ frame' = [frame EXCEPT ![r] =
       IF /\ query[r].op = "compatible_versions"
          /\ resp.kind = "json"
          /\ \A k \in {"versions", "latest"} : Has(resp.doc, Lower(query[r].package_manager), k)
       THEN CompatibleFrame(query[r], resp.doc)
       ELSE NoFrame]
  /\ UNCHANGED <<pydanticV2, query, calls>>

\* one request, over the full input space
Next ==
  \/ pc[1] = "idle" /\ \E q \in Queries : Receive(1, q)
  \/ Start(1)
  \/ pc[1] = "awaiting" /\ \E resp \in Responses(query[1]) : Respond(1, resp)

Spec == Init /\ [][Next]_vars

\* NReq requests in flight at once, over the small input space
NextConc ==
  \E r \in Requests :
    \/ pc[r] = "idle" /\ \E q \in SmallQueries : Receive(r, q)
    \/ Start(r)
    \/ pc[r] = "awaiting" /\ \E resp \in SmallResponses(query[r]) : Respond(r, resp)

SpecConc == Init /\ [][NextConc]_vars


\* ------------------------------------------------------------------------
\* Vocabulary of the properties
\* ------------------------------------------------------------------------

Done(r) == pc[r] = "done"

Supported(r) == query[r].package_manager \in {"pip", "npm", "PIP"}

\* request r ran get_compatible_versions to its end
CompatDone(r) == Done(r) /\ query[r].op = "compatible_versions"

\* ... and reached the resolution block with a registry document
Resolved(r) == CompatDone(r) /\ frame[r].exc # "none"

Succeeded(r) == result[r].kind = "result" /\ result[r].body.error = NoExc

Candidates(r) == response[r].doc.versions

Elems(s) == {s[i] : i \in 1..Len(s)}

\* the position of v in the sequence s of distinct elements
IndexIn(s, v) == CHOOSE i \in 1..Len(s) : s[i] = v

\* version ordering as the specification words it: numeric per segment, a
\* missing trailing segment equal to zero, a pre-release before its release
RefSeg(rel, i) == IF i <= Len(rel) THEN rel[i] ELSE 0

RefCmpRelease(a, b) ==
  LET n     == IF Len(a) > Len(b) THEN Len(a) ELSE Len(b)
      diffs == {i \in 1..n : RefSeg(a, i) # RefSeg(b, i)}
      first == CHOOSE i \in diffs : \A j \in diffs : i <= j
  IN  IF diffs = {} THEN 0
      ELSE IF RefSeg(a, first) < RefSeg(b, first) THEN -1 ELSE 1

RefPreRank(p) == IF p = NoPre THEN 2 ELSE IF p[1] = "a" THEN 0 ELSE 1

RefCmpParsed(x, y) ==
  LET c == RefCmpRelease(x.release, y.release)
  IN  IF c # 0 THEN c
      ELSE IF RefPreRank(x.pre) # RefPreRank(y.pre)
      THEN (IF RefPreRank(x.pre) < RefPreRank(y.pre) THEN -1 ELSE 1)
      ELSE IF x.pre[2] = y.pre[2] THEN 0
      ELSE IF x.pre[2] < y.pre[2] THEN -1 ELSE 1

RefCmp(v, w) == RefCmpParsed(version_parse(v), version_parse(w))

RefHolds(optext, c) ==
  CASE optext = <<">", "=">> -> c >= 0
    [] optext = <<">">> -> c > 0
    [] optext = <<"<", "=">> -> c <= 0
    [] optext = <<"<">> -> c < 0

ComparisonTexts == {<<">", "=">>, <<">">>, <<"<", "=">>, <<"<">>}

UnrecognisedTexts == {<<"!", "=">>, <<"=">>, <<"^">>, <<>>}

TildeEq == <<"~", "=">>

\* the operand up to and including its last ".", or "." when it has none
RefPrefix(operand) ==
  LET dots == {i \in 1..Len(operand) : operand[i] = "."}
  IN  IF dots = {} THEN <<".">>
      ELSE SubSeq(operand, 1, CHOOSE i \in dots : \A j \in dots : j <= i)

Scenario14 == {V_1_4_0, V_1_4_2, V_1_4_9, V_1_5_0}

\* request r resolved "~=1.4.2" over the four candidates of the scenario
IsScenario14(r) ==
  /\ Resolved(r)
  /\ query[r].version_constraint = TildeEq \o V_1_4_2
  /\ Len(Candidates(r)) = 4
  /\ Elems(Candidates(r)) = Scenario14

\* ------------------------------------------------------------------------
\* Properties
\* ------------------------------------------------------------------------

\* the failure kinds: request r ended after one of them
FailureKind(r) ==
  /\ Done(r)
  /\ \/ ~Supported(r)
     \/ response[r].kind \in {"transport_error", "non200", "bad_json"}
     \/ response[r].kind = "json" /\ response[r].doc.present = {}
     \/ /\ query[r].op = "package_info"
        /\ response[r].kind = "json"
        /\ response[r].doc.latest = NoneStr

\* the data field of a result model is empty
EmptyData(b) ==
  CASE b.type = "PackageResult" -> b.versions = <<>>
    [] b.type = "DependencyResult" -> b.dependencies = EmptyDict
    [] b.type = "VersionResult" -> b.compatible_versions = <<>>

\* C1: for each operation and every failure kind (unsupported registry,
\* non-200 response, transport failure, malformed JSON, a fault while the
\* result is built) the caller gets a result model carrying the package name
\* and manager, empty data fields and a non-null error; no path ends in a fault.
C1_EveryFailureYieldsErrorResult ==
  \A r \in Requests :
    FailureKind(r) =>
      /\ result[r].kind = "result"
      /\ result[r].body.package_name = query[r].package_name
      /\ Lower(result[r].body.package_manager) = Lower(query[r].package_manager)
      /\ EmptyData(result[r].body)
      /\ result[r].body.error # NoExc

\* C2, as stated: "~=1.4.2" over 1.4.0, 1.4.2, 1.4.9, 1.5.0 returns exactly
\* 1.4.2 and 1.4.9 and recommends 1.4.9.
C2_TildeScenarioAsStated ==
  \A r \in Requests :
    IsScenario14(r) =>
      /\ Succeeded(r)
      /\ Elems(result[r].body.compatible_versions) = {V_1_4_2, V_1_4_9}
      /\ result[r].body.recommended_version = V_1_4_9

\* C2, amended: "~=1.4.2" over 1.4.0, 1.4.2, 1.4.9, 1.5.0 returns exactly
\* 1.4.9, 1.4.2 and 1.4.0 (every candidate that starts with "1.4.") and
\* recommends 1.4.9.
C2_TildeScenario ==
  \A r \in Requests :
    IsScenario14(r) =>
      /\ Succeeded(r)
      /\ result[r].body.compatible_versions = <<V_1_4_9, V_1_4_2, V_1_4_0>>
      /\ result[r].body.recommended_version = V_1_4_9

C2_Witness ==
  /\ IsScenario14(1)
  /\ Candidates(1) = <<V_1_4_0, V_1_4_2, V_1_4_9, V_1_5_0>>
  /\ V_1_4_0 \in Elems(result[1].body.compatible_versions)

\* C3: for parseable candidates and a constraint >=, >, <= or < with a
\* parseable operand, the returned compatible_versions holds exactly the
\* candidates v with v op operand under version ordering (a missing segment
\* is zero, a pre-release sorts before its release); ">=X" keeps a candidate
\* equal to X and ">X" drops it, likewise "<=" and "<".
C3_ComparisonFilter ==
  \A r \in Requests :
    \A optext \in ComparisonTexts, operand \in OperandTexts :
      ( /\ Resolved(r)
        /\ query[r].version_constraint = optext \o operand
        /\ Parseable(operand)
        /\ \A v \in Elems(Candidates(r)) : Parseable(v) )
      =>
      /\ Succeeded(r)
      /\ Elems(result[r].body.compatible_versions) =
           {v \in Elems(Candidates(r)) : RefHolds(optext, RefCmp(v, operand))}
      /\ Len(result[r].body.compatible_versions) =
           Cardinality(Elems(result[r].body.compatible_versions))

C3_Witness ==
  /\ Resolved(1)
  /\ query[1].version_constraint = <<">", "=">> \o V_1_2
  /\ Candidates(1) = <<V_1_2_0a1, V_1_2_0, V_1_4, V_1_2>>
  /\ Succeeded(1)
  /\ Elems(result[1].body.compatible_versions) = {V_1_2_0, V_1_4, V_1_2}

\* C4: with a non-empty constraint and a successful request, the returned
\* compatible_versions is in non-increasing version order, candidates of equal
\* version keep their input order, and recommended_version is the first
\* element, or null when the list is empty.
C4_SortedStableRecommended ==
  \A r \in Requests :
    ( /\ Resolved(r)
      /\ query[r].version_constraint \notin {NoneStr, <<>>}
      /\ Succeeded(r) )
    =>
    LET cv == result[r].body.compatible_versions
    IN  /\ \A i, j \in 1..Len(cv) :
             i < j => /\ RefCmp(cv[i], cv[j]) >= 0
                      /\ RefCmp(cv[i], cv[j]) = 0 =>
                           IndexIn(Candidates(r), cv[i]) < IndexIn(Candidates(r), cv[j])
        /\ cv # <<>> => result[r].body.recommended_version = cv[1]
        /\ cv = <<>> => result[r].body.recommended_version = NoneStr
        /\ ( /\ Candidates(r) = <<V_1_0_0, V_1_2_0, V_1_2_3, V_2_0_0>>
             /\ query[r].version_constraint = <<">", "=">> \o V_1_2_0 )
           => /\ cv = <<V_2_0_0, V_1_2_3, V_1_2_0>>
              /\ result[r].body.recommended_version = V_2_0_0

C4_Witness ==
  /\ Resolved(1)
  /\ Succeeded(1)
  /\ query[1].version_constraint = <<"<", "=">> \o V_1_4_2
  /\ Candidates(1) = <<V_1_2, V_1_4, V_1_2_0, V_1_2_0a1>>
  /\ result[1].body.compatible_versions = <<V_1_4, V_1_2, V_1_2_0, V_1_2_0a1>>

\* C5: with no constraint (null or the empty string) the operation returns
\* the registry's candidate list, same elements in the same order, unparsed,
\* and recommends the registry-reported latest version, whether or not it is
\* the highest candidate.
C5_NoConstraintPassThrough ==
  \A r \in Requests :
    ( /\ Resolved(r)
      /\ query[r].version_constraint \in {NoneStr, <<>>} )
    =>
    /\ Succeeded(r)
    /\ result[r].body.compatible_versions = Candidates(r)
    /\ result[r].body.recommended_version = response[r].doc.latest

C5_Witness ==
  /\ Resolved(1)
  /\ query[1].version_constraint = <<>>
  /\ Candidates(1) = <<V_1_4, V_1_2_x, V_1_2>>
  /\ result[1].body.compatible_versions = <<V_1_4, V_1_2_x, V_1_2>>
  /\ result[1].body.recommended_version = V_1_2

\* what each of the six operators is specified to match
RefMatches(optext, operand, v) ==
  IF optext \in ComparisonTexts THEN RefHolds(optext, RefCmp(v, operand))
  ELSE IF optext = TildeEq THEN StartsWith(v, RefPrefix(Strip(operand)))
  ELSE v = Strip(operand)

\* C6: a candidate that cannot be parsed fails only its own comparison: with
\* one unparseable candidate among parseable ones and any of the six
\* operators, the operation still succeeds and returns the parseable
\* candidates that satisfy the constraint.  Stated for the build in which the
\* except clause can build its result, so that what is observed is the
\* exception of the resolution itself.
C6_UnparseableFailsAlone ==
  \A r \in Requests :
    \A optext \in ComparisonTexts \cup {TildeEq, <<"=", "=">>}, operand \in OperandTexts :
      ( /\ ~pydanticV2
        /\ Resolved(r)
        /\ query[r].version_constraint = optext \o operand
        /\ Parseable(operand)
        /\ Cardinality({v \in Elems(Candidates(r)) : ~Parseable(v)}) = 1
        /\ \E v \in Elems(Candidates(r)) : Parseable(v) )
      =>
      /\ Succeeded(r)
      /\ {v \in Elems(result[r].body.compatible_versions) : Parseable(v)} =
           {v \in Elems(Candidates(r)) : Parseable(v) /\ RefMatches(optext, operand, v)}

\* C7: for "~=" + operand the matched list holds exactly the candidates whose
\* string starts with the operand cut after its last "." (the bare "." for an
\* operand of one component), and a successful request returns those.
C7_TildePrefixMatch ==
  \A r \in Requests :
    \A operand \in OperandTexts \cup {<<>>} :
      ( /\ Resolved(r)
        /\ query[r].version_constraint = TildeEq \o operand )
      =>
      /\ frame[r].matched =
           SelectSeq(Candidates(r), LAMBDA v : StartsWith(v, RefPrefix(Strip(operand))))
      /\ Succeeded(r) => Elems(result[r].body.compatible_versions) = Elems(frame[r].matched)

C7_Witness ==
  /\ Resolved(1)
  /\ query[1].version_constraint = TildeEq \o V_1_4_2
  /\ Candidates(1) = <<V_1_4, V_1_5_0, V_1_4_9>>
  /\ frame[1].matched = <<V_1_4_9>>
  /\ Succeeded(1)

\* C8: on every path of the resolution the list of all versions read from
\* the registry response holds the same elements in the same order afterwards.
C8_CandidatesNotMutated ==
  \A r \in Requests :
    Resolved(r) => frame[r].heap.a0 = Candidates(r)

\* C9: a non-empty constraint that starts with none of the six operators
\* filters nothing: compatible_versions holds exactly the candidates and error
\* is null.  Stated for the build in which the except clause can build its
\* result.
C9_UnrecognisedPassThrough ==
  \A r \in Requests :
    \A optext \in UnrecognisedTexts, operand \in OperandTexts :
      ( /\ ~pydanticV2
        /\ Resolved(r)
        /\ query[r].version_constraint = optext \o operand )
      =>
      /\ Succeeded(r)
      /\ Elems(result[r].body.compatible_versions) = Elems(Candidates(r))
      /\ Len(result[r].body.compatible_versions) = Len(Candidates(r))

\* C10: a request to a supported registry issues exactly one registry call,
\* one to an unsupported registry none; after a non-200 response or a
\* transport failure the request ends with an error result and no further
\* call, in every interleaving of the requests.
C10_OneCallNoRetry ==
  \A r \in Requests :
    /\ calls[r] <= 1
    /\ pc[r] = "awaiting" => calls[r] = 1
    /\ Done(r) => calls[r] = IF Supported(r) THEN 1 ELSE 0
    /\ (Done(r) /\ response[r].kind \in {"non200", "transport_error"}) =>
         /\ result[r].kind = "result"
         /\ result[r].body.error # NoExc

\* the call counts of C10 alone: one call per supported request, none
\* otherwise, and a request that failed stays done
CallsOncePerRequest ==
  \A r \in Requests :
    /\ calls[r] <= 1
    /\ pc[r] = "awaiting" => calls[r] = 1
    /\ Done(r) => calls[r] = IF Supported(r) THEN 1 ELSE 0

====
